---- MODULE Spec2Model ----
(***************************************************************************)
(* The ledger of render_bot.py: the two tables (transactions,              *)
(* group_members), the four DatabaseManager operations and the Telegram    *)
(* handlers that call them.  Every storage statement (a SELECT, or the     *)
(* flush + COMMIT of a session) is one atomic step of the database; the    *)
(* handler code between two statements is local and runs with the          *)
(* statement that precedes it.  Several handler invocations (bot           *)
(* instances sharing the database) interleave at statement boundaries.     *)
(*                                                                         *)
(* Amounts are the integer-valued floats (exact in a double) and the float *)
(* nan; the texts a user sends are sequences of characters.                *)
(***************************************************************************)
EXTENDS Integers, Sequences, FiniteSets, TLC

\* ---------------------------------------------------------------- bounds
MaxTxns == 2        \* rows the transactions table may hold
MaxClock == 1       \* largest value of the wall clock
MaxFaults == 1      \* storage failures injected in one behaviour
MaxCalls == 3       \* handler invocations in one behaviour

\* handler invocations that may be in progress at the same time
Procs == {"h1", "h2"}

\* values uuid4()[:8] may produce (render_bot.py:156)
Ids == {"a1", "b2"}

\* the Telegram users that send updates: user.id, user.username, user.first_name
Users ==
  { [user_id |-> "u1", username |-> "al",   first_name |-> "Al"],
    [user_id |-> "u1", username |-> "None", first_name |-> ""],
    [user_id |-> "u2", username |-> "bo",   first_name |-> "Bo"] }

\* command arguments and photo captions
Captions ==
  { <<"5", " ", "x">>,
    <<"0", " ", "x">>,
    <<"-", "5", " ", "x">>,
    <<"5">>,
    <<"x", " ", "5">>,
    <<>>,
    <<" ", "5", " ", " ", "x">>,
    <<"5", " ">>,
    <<"n", "a", "n", " ", "x">> }

\* ' '.join(context.args): no leading, trailing or doubled blank (render_bot.py:332)
ArgTexts ==
  { t \in Captions :
      /\ t # <<>> => (t[1] # " " /\ t[Len(t)] # " ")
      /\ \A i \in 1..(Len(t) - 1) : ~(t[i] = " " /\ t[i + 1] = " ") }

\* the updates of the runs in which invocations overlap
FewUsers == { u \in Users : u.user_id = "u1" }
FewCaptions == { <<"5", " ", "x">> }

\* limits get_transaction_history is called with (render_bot.py:470, 520, and
\* direct calls of the ledger interface)
HistoryLimit == 10
StatementLimit == 50
Limits == {1, 2}

\* os.environ.get('DATABASE_URL'): None, or a string as its scheme and the rest
Environ ==
  { [none |-> TRUE,  str |-> <<>>],
    [none |-> FALSE, str |-> <<>>],
    [none |-> FALSE, str |-> <<"postgres://", "host/db">>],
    [none |-> FALSE, str |-> <<"postgresql://", "host/db">>],
    [none |-> FALSE, str |-> <<"host/db">>] }

VARIABLES
  DATABASE_URL,   \* module global, set when the module is loaded
  SessionLocal,   \* module global: "None" or the sessionmaker bound to the engine
  main_pc,        \* where main() stands
  transactions,   \* table transactions, in insertion order
  group_members,  \* table group_members, in insertion order
  now,            \* datetime.now(timezone.utc) as last read
  faults,         \* storage failures injected so far
  calls,          \* handler invocations begun so far
  loc,            \* loc[p]: the locals of handler invocation p
  out             \* the locals of the invocation that the last step ended, with
                  \* its reply and what its DatabaseManager calls returned

vars ==
  <<DATABASE_URL, SessionLocal, main_pc,
    transactions, group_members, now, faults, calls, loc, out>>

\* the module globals and the position of main
globals == <<DATABASE_URL, SessionLocal, main_pc>>

\* ------------------------------------------------------------ configuration
\* if DATABASE_URL and DATABASE_URL.startswith('postgres://'):
\*     DATABASE_URL = DATABASE_URL.replace('postgres://', 'postgresql://')
NormalizeUrl(env) ==
  IF ~env.none /\ env.str # <<>> /\ Head(env.str) = "postgres://"
  THEN [env EXCEPT !.str = [i \in 1..Len(env.str) |->
                              IF env.str[i] = "postgres://" THEN "postgresql://"
                              ELSE env.str[i]]]
  ELSE env

\* `if DATABASE_URL:` -- neither None nor the empty string
Truthy(url) == ~url.none /\ url.str # <<>>

\* create_engine(url) raises ArgumentError for a string it cannot parse as a URL
\* and NoSuchModuleError for a dialect it does not know
create_engine(url) ==
  IF Len(url.str) = 2 /\ Head(url.str) = "postgresql://"
  THEN [raises |-> FALSE, engine |-> "Engine"]
  ELSE [raises |-> TRUE, engine |-> "None"]

\* initialize_database without the test `if DATABASE_URL:`
initialize_database_untested ==
  IF create_engine(DATABASE_URL).raises /\ Truthy(DATABASE_URL)
  THEN [result |-> FALSE, SessionLocal |-> SessionLocal]
  ELSE [result |-> TRUE, SessionLocal |-> "sessionmaker"]

\* initialize_database(): [result, SessionLocal]
initialize_database ==
  IF Truthy(DATABASE_URL)
  THEN IF create_engine(DATABASE_URL).raises
       THEN [result |-> FALSE, SessionLocal |-> SessionLocal]
       ELSE [result |-> TRUE, SessionLocal |-> "sessionmaker"]
  ELSE [result |-> FALSE, SessionLocal |-> SessionLocal]

\* get_db_session() raises Exception("Database not configured")
NotConfigured == SessionLocal = "None"

\* ------------------------------------------------- text.strip().split(' ', 1)
RECURSIVE lstrip(_)
lstrip(s) == IF s = <<>> THEN s ELSE IF Head(s) = " " THEN lstrip(Tail(s)) ELSE s

RECURSIVE rstrip(_)
rstrip(s) ==
  IF s = <<>> THEN s
  ELSE IF s[Len(s)] = " " THEN rstrip(SubSeq(s, 1, Len(s) - 1)) ELSE s

strip(s) == rstrip(lstrip(s))

split1(s) ==
  IF \E i \in 1..Len(s) : s[i] = " "
  THEN LET i == CHOOSE k \in 1..Len(s) : s[k] = " " /\ \A j \in 1..(k - 1) : s[j] # " "
       IN <<SubSeq(s, 1, i - 1), SubSeq(s, i + 1, Len(s))>>
  ELSE <<s>>

\* ------------------------------------------------------------------- floats
\* float('nan'), kept apart from every number an amount, a sum or a balance takes
NaN == 0 - 999

isnan(a) == a = NaN

\* a + b, a - b, a <= b, a < b and a == b of two floats (in Python and in SQL)
fadd(a, b) == IF isnan(a) \/ isnan(b) THEN NaN ELSE a + b

fsub(a, b) == IF isnan(a) \/ isnan(b) THEN NaN ELSE a - b

fle(a, b) == ~isnan(a) /\ ~isnan(b) /\ a <= b

flt(a, b) == ~isnan(a) /\ ~isnan(b) /\ a < b

feq(a, b) == ~isnan(a) /\ ~isnan(b) /\ a = b

\* ------------------------------------------------------------------ float()
Digits == {"0", "3", "5"}

DigitVal(c) == IF c = "0" THEN 0 ELSE IF c = "3" THEN 3 ELSE 5

RECURSIVE DigitsValue(_)
DigitsValue(s) ==
  IF s = <<>> THEN 0
  ELSE 10 * DigitsValue(SubSeq(s, 1, Len(s) - 1)) + DigitVal(s[Len(s)])

IsDigits(s) == Len(s) > 0 /\ \A i \in 1..Len(s) : s[i] \in Digits

\* float(parts[0]): [ValueError, value]; of the words float() reads as a number
\* ("nan", "inf", "infinity", in any case, signed or not) the texts use "nan"
float(s) ==
  IF IsDigits(s) THEN [ValueError |-> FALSE, value |-> DigitsValue(s)]
  ELSE IF Len(s) > 1 /\ s[1] = "-" /\ IsDigits(Tail(s))
       THEN [ValueError |-> FALSE, value |-> 0 - DigitsValue(Tail(s))]
       ELSE IF s = <<"n", "a", "n">>
            THEN [ValueError |-> FALSE, value |-> NaN]
            ELSE [ValueError |-> TRUE, value |-> 0]

\* parse_amount_description with the test `amount < 0`
parse_amount_description_lt(text) ==
  LET parts == split1(strip(text)) IN
  IF Len(parts) < 2
  THEN [none |-> TRUE, amount |-> 0, description |-> <<>>,
        error |-> "Please provide amount and description"]
  ELSE LET f == float(parts[1]) IN
       IF f.ValueError
       THEN [none |-> TRUE, amount |-> 0, description |-> <<>>,
             error |-> "Invalid amount format"]
       ELSE IF flt(f.value, 0)
            THEN [none |-> TRUE, amount |-> 0, description |-> <<>>,
                  error |-> "Amount must be positive"]
            ELSE [none |-> FALSE, amount |-> f.value, description |-> parts[2],
                  error |-> ""]

\* TelegramBot.parse_amount_description: (amount, description) or (None, reason)
parse_amount_description(text) ==
  LET parts == split1(strip(text)) IN
  IF Len(parts) < 2
  THEN [none |-> TRUE, amount |-> 0, description |-> <<>>,
        error |-> "Please provide amount and description"]
  ELSE LET f == float(parts[1]) IN
       IF f.ValueError
       THEN [none |-> TRUE, amount |-> 0, description |-> <<>>,
             error |-> "Invalid amount format"]
       ELSE IF fle(f.value, 0)
            THEN [none |-> TRUE, amount |-> 0, description |-> <<>>,
                  error |-> "Amount must be positive"]
            ELSE [none |-> FALSE, amount |-> f.value, description |-> parts[2],
                  error |-> ""]

\* ------------------------------------------------------------ the two tables
\* user.first_name or "Unknown"
FirstName(u) == IF u.first_name = "" THEN "Unknown" ELSE u.first_name

\* no row: what .first() returns for an empty result
NoRow == [pk |-> 0, username |-> "", first_name |-> ""]

\* session.query(GroupMember).filter(GroupMember.user_id == user_id).first()
FirstMember(user_id) ==
  IF \E i \in 1..Len(group_members) : group_members[i].user_id = user_id
  THEN LET i == CHOOSE k \in 1..Len(group_members) :
                  /\ group_members[k].user_id = user_id
                  /\ \A j \in 1..(k - 1) : group_members[j].user_id # user_id
       IN [pk |-> i, username |-> group_members[i].username,
           first_name |-> group_members[i].first_name]
  ELSE NoRow

\* the update branch of add_member without `existing.first_name = first_name`
UpdateMember_username_only(existing, username, first_name) ==
  [group_members EXCEPT ![existing.pk] =
     [@ EXCEPT !.username = IF username # existing.username THEN username ELSE @]]

\* the update branch of add_member with joined_at refreshed as well
UpdateMember_rejoin(existing, username, first_name) ==
  [group_members EXCEPT ![existing.pk] =
     [@ EXCEPT !.username = IF username # existing.username THEN username ELSE @,
               !.first_name = IF first_name # existing.first_name THEN first_name ELSE @,
               !.joined_at = now]]

\* UPDATE group_members SET <the attributes whose value changed> WHERE id = pk:
\* the unit of work writes only the attributes that differ from the loaded ones
UpdateMember(existing, username, first_name) ==
  [group_members EXCEPT ![existing.pk] =
     [@ EXCEPT !.username = IF username # existing.username THEN username ELSE @,
               !.first_name = IF first_name # existing.first_name THEN first_name ELSE @]]

\* datetime.now(timezone.utc) when a row is built: the wall clock has stood still
\* or advanced since it was last read
Clock(reads) == IF reads /\ now < MaxClock THEN {now, now + 1} ELSE {now}

\* INSERT INTO group_members; joined_at takes the column default
InsertMember(user_id, username, first_name, t) ==
  Append(group_members,
         [user_id |-> user_id, username |-> username, first_name |-> first_name,
          joined_at |-> t])

\* INSERT INTO transactions; created_at takes the column default
InsertTransaction(l, transaction_id, t) ==
  Append(transactions,
         [transaction_id |-> transaction_id, type |-> l.type, amount |-> l.amount,
          description |-> l.description, added_by |-> l.added_by,
          user_id |-> l.user_id, photo_id |-> l.photo_id, created_at |-> t])

RECURSIVE SumAmount(_, _)
SumAmount(rows, type) ==
  IF rows = <<>> THEN 0
  ELSE fadd(SumAmount(Tail(rows), type),
            IF Head(rows).type = type THEN Head(rows).amount ELSE 0)

\* the aggregate without its WHERE clause
SelectSum_no_where(rows, type) ==
  fadd(SumAmount(rows, "income"), SumAmount(rows, "expense"))

\* SELECT COALESCE(SUM(amount), 0) FROM transactions WHERE type = :type
SelectSum(rows, type) == SumAmount(rows, type)

\* float(result) if result else 0.0 -- nan is true
ToFloat(result) == IF result # 0 THEN result ELSE 0

\* the dict get_balance builds from the two scalars
BalanceDict(income_result, expense_result) ==
  [income |-> ToFloat(income_result), expenses |-> ToFloat(expense_result),
   balance |-> fsub(ToFloat(income_result), ToFloat(expense_result))]

\* the dict get_balance returns from its except branch
ZeroBalance == [income |-> 0, expenses |-> 0, balance |-> 0]

\* what get_balance returns when both statements read the table `rows`
BalanceOf(rows) == BalanceDict(SelectSum(rows, "income"), SelectSum(rows, "expense"))

Min(a, b) == IF a < b THEN a ELSE b

\* SELECT ... FROM transactions ORDER BY created_at DESC LIMIT :limit
\* every result the statement permits: rows that tie on created_at come in any order
OrderByCreatedAtDesc(limit) ==
  LET n == Len(transactions)
      m == Min(limit, n)
  IN { s \in [1..m -> 1..n] :
         /\ \A i, j \in 1..m : i # j => s[i] # s[j]
         /\ \A i, j \in 1..m :
              i < j => transactions[s[i]].created_at >= transactions[s[j]].created_at
         /\ \A k \in 1..n : (\A i \in 1..m : s[i] # k) =>
              \A i \in 1..m : transactions[k].created_at <= transactions[s[i]].created_at }

\* the list of dicts get_transaction_history builds from the rows
HistoryOf(s) ==
  [i \in 1..Len(s) |->
     LET t == transactions[s[i]]
     IN [id |-> t.transaction_id, type |-> t.type, amount |-> t.amount,
         description |-> t.description, added_by |-> t.added_by,
         created_at |-> t.created_at]]

\* --------------------------------------------------------- storage failures
\* "stmt": the statement (query, flush or COMMIT) raises; "close": session.close()
\* after it raises; "cleanup": rollback()/close() of the except branch raises.
\* The engine connects when a session runs its first statement, so a "stmt" of a
\* first statement is also how a failed connection attempt shows: it is made once.
Cost(o) ==
  IF o \in {"ok", "unconfigured"} THEN 0
  ELSE IF o \in {"stmt", "close", "cleanup"} THEN 1 ELSE 2

Allowed(S) == { o \in S : faults + Cost(o) <= MaxFaults }

\* how a DatabaseManager call may go: with SessionLocal None get_db_session raises
\* before there is a session, and no statement is run
Outcomes(S) == IF NotConfigured THEN {"unconfigured"} ELSE Allowed(S)

\* the exception the except branch catches
Caught(o) == IF o = "unconfigured" THEN "Exception" ELSE "OperationalError"

QueryOutcomes == {"ok", "stmt", "stmt+cleanup"}
ReadOutcomes == {"ok", "stmt", "close"}
WriteOutcomes == {"ok", "stmt", "close", "cleanup", "stmt+cleanup", "close+cleanup"}

\* ------------------------------------------------------------------ locals
Idle ==
  [handler |-> "none", pc |-> "done",
   user_id |-> "", username |-> "", added_by |-> "", text |-> <<>>,
   existing |-> NoRow, member_ok |-> FALSE, e_member |-> "",
   type |-> "", amount |-> 0, description |-> <<>>, photo_id |-> "None",
   transaction_id |-> "", e_txn |-> "",
   income_result |-> 0, balance_info |-> ZeroBalance, snaps |-> {},
   limit |-> 0, history |-> <<>>, e_read |-> "",
   session |-> "none", reply |-> ""]

Finished == {"done", "raised"}

\* the module as loaded: nothing is configured and main has not run
Loaded ==
  /\ \E env \in Environ : DATABASE_URL = NormalizeUrl(env)
  /\ SessionLocal = "None"
  /\ main_pc = "loaded"

\* main has initialized the database and created the tables, and the bot polls
Polling ==
  /\ DATABASE_URL = [none |-> FALSE, str |-> <<"postgresql://", "host/db">>]
  /\ SessionLocal = "sessionmaker"
  /\ main_pc = "polling"

Tables ==
  /\ transactions = <<>>
  /\ group_members = <<>>
  /\ now = 0
  /\ faults = 0
  /\ calls = 0
  /\ loc = [p \in Procs |-> Idle]
  /\ out = Idle

Init == Polling /\ Tables

\* a handler invocation may begin when the previous one on p has ended; the bot
\* polls, or main has returned and the program that loaded the module calls its
\* handlers and its DatabaseManager in the state the globals are left in
CanStart(p) ==
  /\ main_pc \in {"polling", "returned"}
  /\ loc[p].pc \in Finished
  /\ calls < MaxCalls

\* the table has room for the rows of the write handlers in progress
Room ==
  Len(transactions)
    + Cardinality({ q \in Procs : loc[q].pc \in {"am_commit", "at_commit"} }) < MaxTxns

\* a flush + COMMIT + close on tables without unique constraints
WriteResult_no_unique(o, dup) ==
  LET stmt_raises == o \in {"unconfigured", "stmt", "stmt+cleanup"}
      raises == stmt_raises \/ o \in {"close", "close+cleanup"}
      escapes == o \in {"stmt+cleanup", "close+cleanup"}
  IN [committed |-> ~stmt_raises,
      raises |-> raises,
      escapes |-> escapes,
      e |-> IF stmt_raises THEN Caught(o)
            ELSE IF raises THEN "OperationalError" ELSE "",
      session |-> IF o = "unconfigured" THEN "none"
                  ELSE IF escapes THEN "open" ELSE "closed"]

\* how a flush + COMMIT + close ends; dup: the INSERT violates a unique constraint
WriteResult(o, dup) ==
  LET stmt_raises == o \in {"unconfigured", "stmt", "stmt+cleanup"} \/ dup
      raises == stmt_raises \/ o \in {"close", "close+cleanup"}
      escapes == o \in {"cleanup", "stmt+cleanup", "close+cleanup"}
  IN [committed |-> ~stmt_raises,
      raises |-> raises,
      escapes |-> escapes,
      e |-> IF o \in {"unconfigured", "stmt", "stmt+cleanup"} THEN Caught(o)
            ELSE IF dup THEN "IntegrityError"
            ELSE IF raises THEN "OperationalError" ELSE "",
      session |-> IF o = "unconfigured" THEN "none"
                  ELSE IF escapes THEN "open" ELSE "closed"]

\* "cleanup" alone needs an exception of the statement's own; close() is reached
\* only after a COMMIT that went through
Applicable(o, dup) ==
  /\ o = "cleanup" => dup
  /\ o \in {"close", "close+cleanup"} => ~dup

\* ------------------------------------------- handler code between statements
\* the handler has returned (pc "done") or an exception has left it (pc "raised"):
\* its text, its reply and what its DatabaseManager calls returned stay on record
Ended(l, pc, reply) ==
  [Idle EXCEPT !.handler = l.handler, !.pc = pc, !.reply = reply, !.text = l.text,
               !.existing = l.existing,
               !.member_ok = l.member_ok, !.e_member = l.e_member,
               !.transaction_id = l.transaction_id, !.e_txn = l.e_txn,
               !.balance_info = l.balance_info, !.snaps = l.snaps,
               !.limit = l.limit, !.history = l.history, !.e_read = l.e_read,
               !.session = l.session]

\* a step leaves invocation p with the locals r: while the handler runs they stay
\* in loc[p]; when it has ended they go to out and p is free for the next update
InProgress(r) == IF r.pc \in Finished THEN Idle ELSE r

Result(r) == IF r.pc \in Finished THEN r ELSE Idle

Settle(p, r) ==
  /\ loc' = [loc EXCEPT ![p] = InProgress(r)]
  /\ out' = Result(r)

\* income/expense/handle_photo after get_balance returned: the success reply;
\* balance: the status reply
AfterGetBalance(l) ==
  Ended(l, "done", IF l.handler = "balance" THEN "Group Financial Status"
                   ELSE "added successfully")

\* the handlers without the test `if transaction_id:`
AfterAddTransaction_unchecked(l) ==
  [Idle EXCEPT !.handler = l.handler, !.pc = "gb_income", !.text = l.text,
               !.member_ok = l.member_ok, !.e_member = l.e_member,
               !.transaction_id = l.transaction_id, !.session = l.session]

\* income/expense/handle_photo after add_transaction returned; the locals that
\* only the wording of the reply reads are left out from here on
AfterAddTransaction(l) ==
  IF l.transaction_id # ""
  THEN [Idle EXCEPT !.handler = l.handler, !.pc = "gb_income", !.text = l.text,
                    !.member_ok = l.member_ok, !.e_member = l.e_member,
                    !.transaction_id = l.transaction_id, !.session = l.session]
  ELSE Ended(l, "done", "Failed to add")

\* start: the welcome reply; income/expense/handle_photo: parse the text and
\* reply with the reason when there is no amount
AfterAddMember(l) ==
  IF l.handler = "start"
  THEN Ended(l, "done", "Welcome")
  ELSE LET r == parse_amount_description(l.text)
       IN IF r.none
          THEN Ended(l, "done", r.error)
          ELSE [l EXCEPT !.pc = "at_commit", !.amount = r.amount,
                         !.description = r.description]

\* --------------------------------------------------- DatabaseManager.add_member
\* session = get_db_session(); existing = session.query(...).first()
add_member_query(l, o) ==
  IF o = "ok"
  THEN [l EXCEPT !.pc = "am_commit", !.existing = FirstMember(l.user_id),
                 !.session = "open"]
  ELSE IF o \in {"unconfigured", "stmt"}
       THEN AfterAddMember([l EXCEPT !.member_ok = FALSE, !.e_member = Caught(o),
                                     !.session = IF o = "stmt" THEN "closed" ELSE "none"])
       ELSE Ended([l EXCEPT !.e_member = "OperationalError", !.session = "open"],
                  "raised", "")

\* an add_member that leaves its write to the transaction of the entry
add_member_flush_deferred(l, t) == group_members

\* the rows of group_members after the flush of add_member's session
add_member_flush(l, t) ==
  IF l.existing.pk # 0
  THEN UpdateMember(l.existing, l.username, l.added_by)
  ELSE InsertMember(l.user_id, l.username, l.added_by, t)

\* existing.username = ...; existing.first_name = ... / session.add(member);
\* session.commit(); session.close(); return True -- or the except branch
add_member_commit(p) ==
  LET l == loc[p]
      dup == l.existing.pk = 0 /\ FirstMember(l.user_id).pk # 0
  IN /\ l.pc = "am_commit"
     /\ \E o \in Allowed(WriteOutcomes) :
          LET r == WriteResult(o, dup)
          IN /\ Applicable(o, dup)
             /\ \E t \in Clock(r.committed /\ l.existing.pk = 0) :
                  /\ now' = t
                  /\ group_members' =
                       IF r.committed THEN add_member_flush(l, t) ELSE group_members
             /\ faults' = faults + Cost(o)
             /\ Settle(p, IF r.escapes
                           THEN Ended([l EXCEPT !.e_member = r.e, !.session = r.session],
                                      "raised", "")
                           ELSE AfterAddMember([l EXCEPT !.member_ok = ~r.raises,
                                                         !.e_member = r.e,
                                                         !.session = r.session]))
             /\ UNCHANGED <<globals, transactions, calls>>

\* ---------------------------------------------- DatabaseManager.add_transaction
\* the income and expense totals of a table
Totals(rows) == <<SelectSum(rows, "income"), SelectSum(rows, "expense")>>

\* a get_balance in progress on another invocation lives through this commit
Observe(l, rows) ==
  IF l.pc = "gb_expense" THEN [l EXCEPT !.snaps = @ \cup {Totals(rows)}] ELSE l

add_transaction(p) ==
  LET l == loc[p]
  IN /\ l.pc = "at_commit"
     /\ \E transaction_id \in Ids, o \in Outcomes(WriteOutcomes) :
          LET dup == \E i \in 1..Len(transactions) :
                        transactions[i].transaction_id = transaction_id
              r == WriteResult(o, dup)
              after == IF r.escapes
                       THEN Ended([l EXCEPT !.e_txn = r.e, !.session = r.session],
                                  "raised", "")
                       ELSE AfterAddTransaction(
                              [l EXCEPT !.transaction_id =
                                          IF r.raises THEN "" ELSE transaction_id,
                                        !.e_txn = r.e, !.session = r.session])
          IN /\ Applicable(o, dup)
             /\ \E t \in Clock(r.committed) :
                  LET rows == IF r.committed THEN InsertTransaction(l, transaction_id, t)
                              ELSE transactions
                  IN /\ now' = t
                     /\ transactions' = rows
                     /\ loc' = [q \in Procs |->
                          IF q # p THEN Observe(loc[q], rows) ELSE InProgress(after)]
             /\ faults' = faults + Cost(o)
             /\ out' = Result(after)
             /\ UNCHANGED <<globals, group_members, calls>>

\* -------------------------------------------------- DatabaseManager.get_balance
\* session = get_db_session(); income_result = session.execute(...).scalar()
get_balance_first(l, o) ==
  IF o = "ok"
  THEN [l EXCEPT !.pc = "gb_expense",
                 !.income_result = SelectSum(transactions, "income"),
                 !.snaps = {Totals(transactions)},
                 !.session = "open"]
  ELSE AfterGetBalance([l EXCEPT !.balance_info = ZeroBalance,
                                 !.e_read = Caught(o),
                                 !.session = IF o = "stmt" THEN "open" ELSE "none"])

get_balance_income(p) ==
  /\ loc[p].pc = "gb_income"
  /\ \E o \in Outcomes({"ok", "stmt"}) :
       /\ Settle(p, get_balance_first(loc[p], o))
       /\ faults' = faults + Cost(o)
  /\ UNCHANGED <<globals, transactions, group_members, now, calls>>

\* expense_result = session.execute(...).scalar(); session.close(); return {...}
get_balance_expense(p) ==
  /\ loc[p].pc = "gb_expense"
  /\ \E o \in Allowed(ReadOutcomes) :
       /\ Settle(p, AfterGetBalance(
              IF o = "ok"
              THEN [loc[p] EXCEPT !.balance_info =
                      BalanceDict(loc[p].income_result, SelectSum(transactions, "expense")),
                                  !.session = "closed"]
              ELSE [loc[p] EXCEPT !.balance_info = ZeroBalance,
                                  !.e_read = "OperationalError"]))
       /\ faults' = faults + Cost(o)
  /\ UNCHANGED <<globals, transactions, group_members, now, calls>>

\* ---------------------------------------- DatabaseManager.get_transaction_history
get_transaction_history(p, handler, limit) ==
  /\ CanStart(p)
  /\ \E o \in Outcomes(ReadOutcomes) :
       /\ \E s \in OrderByCreatedAtDesc(limit) :
            LET history == IF o = "ok" THEN HistoryOf(s) ELSE <<>>
            IN Settle(p,
                 [Idle EXCEPT !.handler = handler, !.limit = limit,
                              !.history = history,
                              !.e_read = IF o = "ok" THEN "" ELSE Caught(o),
                              !.session = IF o = "ok" THEN "closed"
                                          ELSE IF o = "unconfigured" THEN "none"
                                          ELSE "open",
                              !.reply = IF history = <<>> THEN "No transactions"
                                        ELSE "listed"])
       /\ faults' = faults + Cost(o)
  /\ calls' = calls + 1
  /\ UNCHANGED <<globals, transactions, group_members, now>>

\* a caller of the ledger interface asks for the `limit` most recent entries
getRecent(p) == \E limit \in Limits : get_transaction_history(p, "getRecent", limit)

\* ------------------------------------------------------------------ handlers
\* start, income, expense, handle_photo up to the first statement of add_member
Register(p, handler, type, u, text, photo_id) ==
  /\ CanStart(p)
  /\ \E o \in Outcomes(QueryOutcomes) :
       /\ Settle(p, add_member_query(
              [Idle EXCEPT !.handler = handler, !.type = type, !.text = text,
                           !.photo_id = photo_id, !.user_id = u.user_id,
                           !.username = u.username, !.added_by = FirstName(u)], o))
       /\ faults' = faults + Cost(o)
  /\ calls' = calls + 1
  /\ UNCHANGED <<globals, transactions, group_members, now>>

start(p, users) == \E u \in users : Register(p, "start", "", u, <<>>, "None")

income(p, users, texts) ==
  Room /\ \E u \in users, text \in texts : Register(p, "income", "income", u, text, "None")

expense(p, users, texts) ==
  Room /\ \E u \in users, text \in texts : Register(p, "expense", "expense", u, text, "None")

handle_photo(p, users, captions) ==
  \E u \in users, caption \in captions :
    IF caption = <<>>
    THEN /\ CanStart(p)
         /\ Settle(p, [Idle EXCEPT !.handler = "handle_photo",
                                   !.reply = "Please add expense amount and description"])
         /\ calls' = calls + 1
         /\ UNCHANGED <<globals, transactions, group_members, now, faults>>
    ELSE Room /\ Register(p, "handle_photo", "expense", u, caption, "file_id")

balance(p) ==
  /\ CanStart(p)
  /\ \E o \in Outcomes({"ok", "stmt"}) :
       /\ Settle(p, get_balance_first([Idle EXCEPT !.handler = "balance"], o))
       /\ faults' = faults + Cost(o)
  /\ calls' = calls + 1
  /\ UNCHANGED <<globals, transactions, group_members, now>>

history(p) == get_transaction_history(p, "history", HistoryLimit)

statement(p) == get_transaction_history(p, "statement", StatementLimit)

members(p) ==
  /\ CanStart(p)
  /\ \E o \in Outcomes(ReadOutcomes) :
       /\ Settle(p,
            [Idle EXCEPT !.handler = "members",
                         !.e_read = IF o = "ok" THEN "" ELSE Caught(o),
                         !.session = IF o = "ok" THEN "closed"
                                     ELSE IF o = "unconfigured" THEN "none"
                                     ELSE "open",
                         !.reply = IF o # "ok" THEN "Error retrieving members"
                                   ELSE IF group_members = <<>> THEN "No members found"
                                   ELSE "Group Members"])
       /\ faults' = faults + Cost(o)
  /\ calls' = calls + 1
  /\ UNCHANGED <<globals, transactions, group_members, now>>

\* a reset that does what its name says
reset_deletes(p) ==
  /\ CanStart(p)
  /\ Settle(p, [Idle EXCEPT !.handler = "reset", !.reply = "Reset functionality disabled"])
  /\ calls' = calls + 1
  /\ transactions' = <<>>
  /\ group_members' = <<>>
  /\ UNCHANGED <<globals, now, faults>>

reset(p) ==
  /\ CanStart(p)
  /\ Settle(p, [Idle EXCEPT !.handler = "reset", !.reply = "Reset functionality disabled"])
  /\ calls' = calls + 1
  /\ UNCHANGED <<globals, transactions, group_members, now, faults>>

\* one step of invocation p, its update drawn from the given users and texts
Step(p, users, captions) ==
  \/ start(p, users)
  \/ income(p, users, captions \cap ArgTexts)
  \/ expense(p, users, captions \cap ArgTexts)
  \/ handle_photo(p, users, captions)
  \/ balance(p)
  \/ history(p)
  \/ statement(p)
  \/ getRecent(p)
  \/ members(p)
  \/ reset(p)
  \/ add_member_commit(p)
  \/ add_transaction(p)
  \/ get_balance_income(p)
  \/ get_balance_expense(p)

\* handler invocations of several bot processes on one database: they interleave
\* at every statement
Next == \E p \in Procs : Step(p, FewUsers, FewCaptions)

Spec == Init /\ [][Next]_vars

\* one bot process: a handler runs from its first statement to its last without
\* yielding to another handler
NextSeq == Step("h1", Users, Captions)

SpecSeq == Init /\ [][NextSeq]_vars

\* ---------------------------------------------------------------------- main
\* if not initialize_database(): return
main_initialize_database ==
  /\ main_pc = "loaded"
  /\ SessionLocal' = initialize_database.SessionLocal
  /\ main_pc' = IF initialize_database.result THEN "create_tables" ELSE "returned"
  /\ UNCHANGED <<DATABASE_URL, transactions, group_members, now, faults, calls, loc, out>>

\* if not create_tables(): return; if not bot_token: return; the get_balance of
\* the connection test returns a dict whatever happens; bot.run()
main_create_tables ==
  /\ main_pc = "create_tables"
  /\ \E o \in Allowed({"ok", "stmt"}), bot_token \in BOOLEAN :
       /\ main_pc' = IF o = "ok" /\ bot_token THEN "polling" ELSE "returned"
       /\ faults' = faults + Cost(o)
  /\ UNCHANGED <<DATABASE_URL, SessionLocal, transactions, group_members, now, calls,
                 loc, out>>

\* the module from the moment it is loaded: main runs, then the handlers, one at
\* a time
NextMain ==
  \/ main_initialize_database
  \/ main_create_tables
  \/ Step("h1", Users, FewCaptions)

InitMain == Loaded /\ Tables

SpecMain == InitMain /\ [][NextMain]_vars

\* ------------------------------------------------------------------ claims
Writers == {"income", "expense", "handle_photo"}

HistoryReaders == {"history", "statement", "getRecent"}

\* invocation p, in the middle of add_member or add_transaction, takes a step
Acts(p) == loc'[p] # loc[p]

\* the locals of invocation p after a step it took from the middle of its handler
PostLocals(p) == IF loc'[p].handler # "none" THEN loc'[p] ELSE out'

Committed(transaction_id) ==
  \E i \in 1..Len(transactions) : transactions[i].transaction_id = transaction_id

\* C1: an add_transaction that returns an id adds its amount exactly once to the
\* side of its type, and leaves the other side alone, in what get_balance returns
\* right after it compared with right before it.
C1_RecordThenBalance ==
  [][\A p \in Procs :
       (loc[p].pc = "at_commit" /\ loc'[p].pc = "gb_income") =>
         LET before == BalanceOf(transactions)
             after == BalanceOf(transactions')
             a == loc[p].amount
         IN /\ a > 0
            /\ loc[p].type = "income" =>
                 /\ after.income = before.income + a
                 /\ after.expenses = before.expenses
                 /\ after.balance = before.balance + a
            /\ loc[p].type = "expense" =>
                 /\ after.expenses = before.expenses + a
                 /\ after.income = before.income
                 /\ after.balance = before.balance - a]_vars

\* an entry has been added to a ledger that already held one of the other type
C1_Witness ==
  /\ Len(transactions) = 2
  /\ transactions[1].type # transactions[2].type
  /\ \E p \in Procs : loc[p].pc = "gb_income"
                      /\ loc[p].transaction_id = transactions[2].transaction_id

\* C2: with storage available every add_transaction returns a non-empty id, and
\* the ids of the committed entries are pairwise distinct.
C2_AllSucceedDistinct ==
  /\ faults = 0 => out.reply # "Failed to add"
  /\ \A i, j \in 1..Len(transactions) :
       i # j => transactions[i].transaction_id # transactions[j].transaction_id

\* the texts whose amount is zero or negative, or that have no description
Rejectable ==
  { <<"0", " ", "x">>, <<"-", "5", " ", "x">>, <<"5">>, <<"5", " ">>, <<>> }

ValidationReplies ==
  { "Amount must be positive", "Please provide amount and description",
    "Please add expense amount and description" }

\* C3: a request whose amount is zero or negative or whose description is empty
\* ends with a validation reply and no transaction id, and the ledger changes
\* only in steps of requests that are not of that kind.
C3_Rejected ==
  /\ []((out.handler \in Writers /\ out.text \in Rejectable /\ out.pc = "done") =>
          (out.reply \in ValidationReplies /\ out.transaction_id = ""))
  /\ [](\A p \in Procs : loc[p].pc = "at_commit" =>
          (~fle(loc[p].amount, 0) /\ loc[p].description # <<>>))
  /\ [][transactions' # transactions =>
          \E p \in Procs : /\ loc[p].pc = "at_commit"
                           /\ loc[p].text \notin Rejectable
                           /\ Acts(p)]_vars

\* a zero amount has been rejected while the ledger holds an entry
C3_Witness ==
  /\ out.handler = "income"
  /\ out.text = <<"0", " ", "x">>
  /\ out.reply = "Amount must be positive"
  /\ Len(transactions) = 1

\* C4: when handlers run one after another, every add_member that returns True
\* leaves exactly one row for its user_id, with the username and first_name it
\* was called with.
C4_OneRowLastArguments ==
  [][\A p \in Procs :
       (loc[p].pc = "am_commit" /\ Acts(p) /\ PostLocals(p).member_ok) =>
         LET rows == { i \in 1..Len(group_members') :
                         group_members'[i].user_id = loc[p].user_id }
         IN /\ Cardinality(rows) = 1
            /\ \A i \in rows : /\ group_members'[i].username = loc[p].username
                               /\ group_members'[i].first_name = loc[p].added_by]_vars

\* a second registration of the same id has changed the row of the first
C4_Witness ==
  /\ out.handler = "start"
  /\ out.member_ok
  /\ out.existing.pk # 0
  /\ group_members[out.existing.pk].first_name # out.existing.first_name
  /\ group_members[out.existing.pk].username # out.existing.username

\* C5: with storage available, get_transaction_history(limit) returns the
\* min(limit, n) entries inserted last, the one inserted last first.
C5_ReverseInsertionOrder ==
  (faults = 0 /\ out.handler \in HistoryReaders /\ out.e_read = "") =>
    LET n == Len(transactions)
    IN out.history = HistoryOf([i \in 1..Min(out.limit, n) |-> n + 1 - i])

\* C6: no step removes or changes a committed entry, and reset changes neither
\* table.
C6_AppendOnly ==
  [][/\ Len(transactions') >= Len(transactions)
     /\ \A i \in 1..Len(transactions) : transactions'[i] = transactions[i]
     /\ out'.handler = "reset" =>
          (transactions' = transactions /\ group_members' = group_members)]_vars

\* reset has run on a ledger with an entry and a member
C6_Witness ==
  /\ out.handler = "reset"
  /\ Len(transactions) >= 1
  /\ Len(group_members) >= 1

\* C7: an add_transaction whose id collides with a committed one still returns
\* an id.
C7_CollisionRetried == out.e_txn = "IntegrityError" => out.transaction_id # ""

\* C8: a handler holds a non-empty transaction id only for a committed entry,
\* goes on to the success reply only with such an id, and sends it only then.
C8_NoFalseSuccess ==
  /\ \A p \in Procs :
       /\ loc[p].pc \in {"gb_income", "gb_expense"} /\ loc[p].handler \in Writers =>
            loc[p].transaction_id # ""
       /\ loc[p].transaction_id # "" => Committed(loc[p].transaction_id)
  /\ out.transaction_id # "" => Committed(out.transaction_id)
  /\ (out.handler \in Writers /\ out.reply = "added successfully") =>
       out.transaction_id # ""

\* a write has failed and the handler has said so
C8_Witness ==
  /\ out.handler \in Writers
  /\ out.e_txn = "OperationalError"
  /\ out.transaction_id = ""
  /\ out.reply = "Failed to add"

\* C9: what get_balance and get_transaction_history return after a storage
\* failure differs from what they return for an empty ledger.
C9_FailureFlagged ==
  out.e_read # "" =>
    /\ out.handler \in Writers \cup {"balance"} => out.balance_info # BalanceOf(<<>>)
    /\ out.handler \in HistoryReaders => out.history # <<>>

\* C10: with storage available, the income and expenses get_balance returns are
\* the totals of the committed entries at one moment between its first statement
\* and its return.
C10_OneSnapshot ==
  (faults = 0 /\ out.handler \in Writers \cup {"balance"} /\ out.e_read = ""
     /\ out.reply \in {"added successfully", "Group Financial Status"}) =>
    <<out.balance_info.income, out.balance_info.expenses>> \in out.snaps

\* C11: no exception leaves add_member or add_transaction, whatever storage step
\* fails (get_balance and get_transaction_history have no step after their except
\* branch that could raise).
C11_NoEscape == out.pc # "raised"

\* C12: get_balance reports a failure of the first statement of its session, the
\* one on which the connection is established, only after three failed attempts.
C12_ConnectRetried ==
  (out.handler = "balance" /\ out.e_read # "" /\ out.snaps = {}) => faults >= 3

\* C13: a request that ends with a validation reply has made no storage call:
\* add_member has neither returned True nor failed for it.
C13_RejectedBeforeStorage ==
  (faults = 0 /\ out.handler \in Writers
     /\ out.reply \in ValidationReplies \cup {"Invalid amount format"}) =>
    (~out.member_ok /\ out.e_member = "")

\* C14: with DATABASE_URL absent (None or empty) initialize_database returns
\* False, main returns without polling, and whatever is called in that state
\* returns its failure value (False, "", the zero balance, the empty list) and
\* raises nothing.
C14_DegradesUnconfigured ==
  ~Truthy(DATABASE_URL) =>
    /\ ~initialize_database.result
    /\ SessionLocal = "None"
    /\ main_pc \in {"loaded", "returned"}
    /\ \A p \in Procs : loc[p].pc \in Finished \cup {"at_commit"}
    /\ out.pc = "done"
    /\ ~out.member_ok
    /\ out.transaction_id = ""
    /\ out.balance_info = ZeroBalance
    /\ out.history = <<>>
    /\ out.e_member \in {"", "Exception"}
    /\ out.e_txn \in {"", "Exception"}
    /\ out.e_read \in {"", "Exception"}

\* without a DATABASE_URL main has returned and an income request has been told
\* that its entry was not added
C14_Witness ==
  /\ DATABASE_URL.none
  /\ main_pc = "returned"
  /\ out.handler = "income"
  /\ out.e_member = "Exception"
  /\ out.e_txn = "Exception"
  /\ out.reply = "Failed to add"

\* C15: in every dict get_balance has returned, balance == income - expenses.
C15_NetIsDifference ==
  out.handler \in Writers \cup {"balance"} =>
    feq(out.balance_info.balance,
        fsub(out.balance_info.income, out.balance_info.expenses))

\* C16: when a handler has returned, and between two DatabaseManager calls of a
\* handler, the session the last call opened has been closed.
C16_SessionReleased ==
  /\ out.pc = "done" => out.session # "open"
  /\ \A p \in Procs : loc[p].pc \in {"at_commit", "gb_income"} => loc[p].session # "open"

\* C17: no two committed entries have the same transaction_id, whatever ids
\* uuid4 produces and however the add_transaction calls interleave.
C17_UniqueIds ==
  \A i, j \in 1..Len(transactions) :
    transactions[i].transaction_id = transactions[j].transaction_id => i = j

\* of two requests in progress at the same time, the second has drawn the id the
\* first has just committed, and has been refused
C17_Witness ==
  /\ out.e_txn = "IntegrityError"
  /\ out.transaction_id = ""
  /\ Len(transactions) = 1
  /\ \E p \in Procs : /\ loc[p].pc = "gb_income"
                      /\ loc[p].transaction_id = transactions[1].transaction_id

\* C18: with storage available, when an add_member call completes and no other
\* add_member call is in progress, there is exactly one row for its user_id and
\* the row has the username and first_name of that call, the last to complete.
C18_LastCallWins ==
  [][\A p \in Procs :
       (/\ loc[p].pc = "am_commit"
        /\ Acts(p)
        /\ faults' = 0
        /\ \A q \in Procs \ {p} : loc'[q].pc # "am_commit") =>
         LET rows == { i \in 1..Len(group_members') :
                         group_members'[i].user_id = loc[p].user_id }
         IN /\ Cardinality(rows) = 1
            /\ \A i \in rows : /\ group_members'[i].username = loc[p].username
                               /\ group_members'[i].first_name = loc[p].added_by]_vars

\* C19: an add_member that found a row for its user_id leaves every row's user_id
\* and joined_at as they were, changes no other row, adds none, and changes no
\* entry.
C19_UpdateFrame ==
  [][\A p \in Procs :
       (loc[p].pc = "am_commit" /\ Acts(p) /\ loc[p].existing.pk # 0) =>
         /\ Len(group_members') = Len(group_members)
         /\ \A i \in 1..Len(group_members) :
              /\ group_members'[i].user_id = group_members[i].user_id
              /\ group_members'[i].joined_at = group_members[i].joined_at
              /\ i # loc[p].existing.pk => group_members'[i] = group_members[i]
         /\ transactions' = transactions]_vars

\* a participant with an entry and a neighbour has registered again under another
\* name, later than the first time
C19_Witness ==
  /\ out.member_ok
  /\ out.existing.pk # 0
  /\ Len(group_members) = 2
  /\ group_members[out.existing.pk].first_name # out.existing.first_name
  /\ group_members[out.existing.pk].joined_at < now
  /\ \E i \in 1..Len(transactions) : transactions[i].added_by = out.existing.first_name

\* C20: when a request goes on to add_transaction after add_member returned True,
\* its participant row is already committed; no step writes both tables; and no
\* step removes a participant row, whatever becomes of the entry.
C20_SeparateCommits ==
  /\ [](\A p \in Procs :
          (loc[p].pc = "at_commit" /\ loc[p].member_ok) =>
            \E i \in 1..Len(group_members) : group_members[i].user_id = loc[p].user_id)
  /\ [][~(group_members' # group_members /\ transactions' # transactions)]_vars
  /\ [][/\ Len(group_members') >= Len(group_members)
        /\ \A i \in 1..Len(group_members) :
             group_members'[i].user_id = group_members[i].user_id]_vars

\* a request has registered its participant, its entry has failed, and the
\* participant is there without any entry
C20_Witness ==
  /\ out.handler \in Writers
  /\ out.member_ok
  /\ out.existing.pk = 0
  /\ out.e_txn # ""
  /\ out.reply = "Failed to add"
  /\ Len(group_members) = 1
  /\ transactions = <<>>

\* C21: an add_transaction that returns "" has left the ledger as it was: no
\* entry of that call has been committed.
C21_FailureWritesNothing ==
  [][\A p \in Procs :
       (/\ loc[p].pc = "at_commit"
        /\ Acts(p)
        /\ PostLocals(p).pc = "done"
        /\ PostLocals(p).transaction_id = "") =>
         transactions' = transactions]_vars
====
